---- MODULE Spec2Model ----
(***************************************************************************)
(* Coverage evaluation of a QA dataset against a source document           *)
(* (src/src/core/evaluation/coverage_evaluation.py).                       *)
(*                                                                         *)
(* Specifications, one per stage of main():                                 *)
(*   Spec        hash_based_evaluation: split_document, compute_minhash,   *)
(*               compute_qa_minhash, compute_lsh_coverage, hash_results    *)
(*   SpecExtract extract_knowledge_points (candidates, deduplication)      *)
(*   SpecPrio    prioritize_knowledge_points                               *)
(*   SpecSem     map_qa_to_knowledge, calculate_weighted_coverage,         *)
(*               identify_knowledge_gaps                                   *)
(*   SpecRuns    the stages in sequence, run a second time on the objects  *)
(*               of the first run, with or without one more QA unit        *)
(* Indices are 0-based as in the source.  A Python dict / defaultdict is a *)
(* function whose domain is the set of keys present.  A rate a / b is the  *)
(* pair <<a, b>>; weights are kept in tenths (1.5 -> 15, 1.0 -> 10).       *)
(***************************************************************************)
EXTENDS Integers, Sequences, FiniteSets, TLC

VARIABLES pc, err,
          doc_content, qa_data, segments, doc_hashes, qa_hashes,
          coverage_stats, hash_results,
          extractor, all_points, unique_points,
          kp_given, knowledge_points, prioritized_points,
          sim, sim_calls, mapping_results, sem_stats, knowledge_gaps,
          hash_seed, run, first_run,
          token_lists, sketches, report

lexVars == <<segments, doc_hashes, qa_hashes, coverage_stats, hash_results>>
extVars == <<extractor, all_points, unique_points>>
prioVars == <<kp_given, knowledge_points, prioritized_points>>
semVars == <<sim, sim_calls, mapping_results, sem_stats, knowledge_gaps>>
runVars == <<hash_seed, run, first_run>>
auxVars == <<token_lists, sketches, report>>
vars == <<pc, err, doc_content, qa_data, lexVars, extVars, prioVars, semVars, runVars,
          auxVars>>

(***************************************************************************)
(* Bounds of the model.                                                    *)
(***************************************************************************)
MaxLines == 2
MaxQA == 2
MaxCand == 3
MaxPrioPoints == 3
MaxPoints == 2

(***************************************************************************)
(* Program constants.                                                      *)
(***************************************************************************)
MinLength == 50
MinParagraphs == 5
\* Similarities and weights are kept in tenths: 0.5, 1.5 and 1.0.
SimThreshold == 5
HighWeight == 15
NormalWeight == 10

(***************************************************************************)
(* Generic helpers.                                                        *)
(***************************************************************************)
None == "None"
NoPara == 0 - 1
EmptyMap == [k \in {} |-> <<>>]

Min(S) == CHOOSE x \in S : \A y \in S : x <= y

Get(d, k, default) == IF k \in DOMAIN d THEN d[k] ELSE default

Put(d, k, v) == (k :> v) @@ d

RECURSIVE SeqsUpTo(_, _)
SeqsUpTo(S, n) ==
    IF n = 0 THEN {<<>>}
    ELSE LET shorter == SeqsUpTo(S, n - 1)
         IN  shorter \cup {Append(s, x) : s \in {t \in shorter : Len(t) = n - 1}, x \in S}

RECURSIVE SumSeq(_)
SumSeq(s) == IF s = <<>> THEN 0 ELSE Head(s) + SumSeq(Tail(s))

Range(s) == {s[i] : i \in DOMAIN s}

RECURSIVE SortedSeq(_)
SortedSeq(S) ==
    IF S = {} THEN <<>>
    ELSE LET m == Min(S) IN <<m>> \o SortedSeq(S \ {m})

(***************************************************************************)
(* Rates: the pair <<a, b>> stands for the quotient a / b, b > 0.          *)
(***************************************************************************)
Rate(a, b) == <<a, b>>
\* A guarded branch that yields the undefined quotient 0 / 0.
Zero_Undefined == <<0, 0>>

\* 'else 0': the rate of a guarded division
Zero == <<0, 1>>
RateEq(r, a, b) == r[1] * b = a * r[2]
RateIsZero(r) == r[1] = 0
RateInUnit(r) == r[2] > 0 /\ 0 <= r[1] /\ r[1] <= r[2]

(***************************************************************************)
(* The document: a sequence of lines.  A line has the length of its        *)
(* stripped text and the tokens the tokenizer finds in it; a blank line    *)
(* has length 0.                                                           *)
(***************************************************************************)
Tokens == {"t1", "t2"}
TokenSets == (SUBSET Tokens) \ {{}}

BlankLine == [len |-> 0, toks |-> {}]
ShortLines == {[len |-> 30, toks |-> {"t1"}]}
LongLines == {[len |-> 60, toks |-> ts] : ts \in TokenSets}

\* A piece of text made of consecutive lines joined by newlines, stripped.
Piece(ls) ==
    [len  |-> IF ls = <<>> THEN 0 ELSE SumSeq([i \in DOMAIN ls |-> ls[i].len]) + Len(ls) - 1,
     toks |-> UNION {ls[i].toks : i \in DOMAIN ls}]

\* re.split(r'\n\s*\n', content): the pieces between runs of blank lines.
RECURSIVE SplitBlank(_, _)
SplitBlank(lines, cur) ==
    IF lines = <<>> THEN <<Piece(cur)>>
    ELSE IF Head(lines).len = 0 /\ cur # <<>>
         THEN <<Piece(cur)>> \o SplitBlank(Tail(lines), <<>>)
         ELSE IF Head(lines).len = 0
              THEN SplitBlank(Tail(lines), <<>>)
              ELSE SplitBlank(Tail(lines), Append(cur, Head(lines)))

\* re.split(r'\n', content): one piece per line.
SplitNewline(lines) == [i \in DOMAIN lines |-> Piece(<<lines[i]>>)]

\* A filter that lets every non-empty piece through.
LongEnough_NonEmpty(p) == p.len > 0

\* len(p.strip()) >= min_length
LongEnough(p) == p.len >= MinLength

FilterLength(ps) == SelectSeq(ps, LongEnough)

\* A fallback that adds the single-newline split to the blank-line split.
split_document_Merged(content) ==
    LET paragraphs == FilterLength(SplitBlank(content, <<>>))
    IN  IF Len(paragraphs) < MinParagraphs
        THEN paragraphs \o FilterLength(SplitNewline(content))
        ELSE paragraphs

split_document(content) ==
    LET paragraphs == FilterLength(SplitBlank(content, <<>>))
    IN  IF Len(paragraphs) < MinParagraphs
        THEN FilterLength(SplitNewline(content))
        ELSE paragraphs

(***************************************************************************)
(* MinHash (datasketch): one minimum per hash function of the family; the  *)
(* sketch of no token at all keeps the initial maximum in every component. *)
(***************************************************************************)
\* The initial value of every component, (1 << 32) - 1 in datasketch: here the
\* largest integer of the checker, above every value of HashFamily.
MaxHash == 2^30 + (2^30 - 1)

HashFamily ==
    << [t \in Tokens |-> IF t = "t1" THEN 1 ELSE 2],
       [t \in Tokens |-> IF t = "t1" THEN 2 ELSE 1] >>

MinHash(toks) ==
    [p \in DOMAIN HashFamily |->
        IF toks = {} THEN MaxHash ELSE Min({HashFamily[p][t] : t \in toks})]

(***************************************************************************)
(* The loop of lines 115-117 (and 142-144) over a token list: MinHash()    *)
(* starts from the maximum and update(token) lowers each component to the  *)
(* token's hash when that is smaller.  MinHash above is its result for the *)
(* set of the tokens.                                                      *)
(***************************************************************************)
MaxTokens == 3

InitialHashValues == [p \in DOMAIN HashFamily |-> MaxHash]

\* An update that keeps the hash of the token added last.
Update_LastToken(hashvalues, token) ==
    [p \in DOMAIN HashFamily |-> HashFamily[p][token]]

\* mh.update(token)
Update(hashvalues, token) ==
    [p \in DOMAIN HashFamily |->
        IF HashFamily[p][token] < hashvalues[p] THEN HashFamily[p][token] ELSE hashvalues[p]]

RECURSIVE UpdateAll(_, _)
UpdateAll(hashvalues, tokens) ==
    IF tokens = <<>> THEN hashvalues
    ELSE UpdateAll(Update(hashvalues, Head(tokens)), Tail(tokens))

MinHashOfTokens(tokens) == UpdateAll(InitialHashValues, tokens)

compute_minhash(segs) ==
    [i \in 0..(Len(segs) - 1) |->
        [minhash |-> MinHash(segs[i + 1].toks), length |-> segs[i + 1].len]]

\* line 133 (and 428): the group's name, or a default numbered by the group.
TopicNameOf(topic, topic_idx) ==
    IF topic.topic = None THEN "unnamed_" \o ToString(topic_idx) ELSE topic.topic

RECURSIVE compute_qa_minhash_from(_, _)
compute_qa_minhash_from(qd, topic_idx) ==
    IF topic_idx >= Len(qd) THEN <<>>
    ELSE LET topic == qd[topic_idx + 1]
         IN  [qa_idx \in 1..Len(topic.qa_pairs) |->
                 [minhash   |-> MinHash(topic.qa_pairs[qa_idx].toks),
                  topic     |-> TopicNameOf(topic, topic_idx),
                  qa_idx    |-> qa_idx - 1,
                  topic_idx |-> topic_idx]]
             \o compute_qa_minhash_from(qd, topic_idx + 1)

compute_qa_minhash(qd) == compute_qa_minhash_from(qd, 0)

(***************************************************************************)
(* MinHashLSH (datasketch): the sketch is cut into bands; a query returns  *)
(* the inserted keys that agree with it on every row of some band.         *)
(***************************************************************************)
Bands == {{1}, {2}}

\* A query that leaves out the keys whose sketch equals the query's.
LshQuery_NotSelf(dh, mh) ==
    {i \in DOMAIN dh : /\ dh[i].minhash # mh
                       /\ \E band \in Bands : \A p \in band : dh[i].minhash[p] = mh[p]}

\* lines 173-177: insert every segment sketch, query one QA sketch
LshQuery(dh, mh) ==
    {i \in DOMAIN dh : \E band \in Bands : \A p \in band : dh[i].minhash[p] = mh[p]}

\* A step of the inner loop that forgets the QA -> segment link.
RecordMatch_NoBackLink(stats, qa_idx, para_idx) ==
    [covered_paragraphs |-> stats.covered_paragraphs \cup {para_idx},
     paragraph_coverage |->
         Put(stats.paragraph_coverage, para_idx,
             Append(Get(stats.paragraph_coverage, para_idx, <<>>), qa_idx)),
     qa_matches |-> stats.qa_matches]

\* A step of the inner loop that keeps only the segment matched last.
RecordMatch_OnlyLast(stats, qa_idx, para_idx) ==
    [covered_paragraphs |-> {para_idx},
     paragraph_coverage |->
         Put(stats.paragraph_coverage, para_idx,
             Append(Get(stats.paragraph_coverage, para_idx, <<>>), qa_idx)),
     qa_matches |->
         Put(stats.qa_matches, qa_idx,
             Append(Get(stats.qa_matches, qa_idx, <<>>), para_idx))]

\* lines 183-186: one returned id is recorded as covered and linked both ways.
RecordMatch(stats, qa_idx, para_idx) ==
    [covered_paragraphs |-> stats.covered_paragraphs \cup {para_idx},
     paragraph_coverage |->
         Put(stats.paragraph_coverage, para_idx,
             Append(Get(stats.paragraph_coverage, para_idx, <<>>), qa_idx)),
     qa_matches |->
         Put(stats.qa_matches, qa_idx,
             Append(Get(stats.qa_matches, qa_idx, <<>>), para_idx))]

(***************************************************************************)
(* lsh.query returns list(candidates), candidates being a set of the       *)
(* string keys "doc_<i>": its order follows the string hashes, which       *)
(* Python draws anew for every process.  hash_seed stands for that draw.   *)
(***************************************************************************)
HashSeeds == {0, 1}

RECURSIVE Reverse(_)
Reverse(seq) == IF seq = <<>> THEN <<>> ELSE Reverse(Tail(seq)) \o <<Head(seq)>>

\* line 177: the list a query returns for the set of matching segments.
ResultOrder(S) == IF hash_seed = 0 THEN SortedSeq(S) ELSE Reverse(SortedSeq(S))

\* lines 180-186: the inner loop over the ids one query returned.
RECURSIVE RecordMatches(_, _, _)
RecordMatches(stats, qa_idx, result) ==
    IF result = <<>> THEN stats
    ELSE RecordMatches(RecordMatch(stats, qa_idx, Head(result)), qa_idx, Tail(result))

\* lines 176-186: the loop over the QA sketches.
RECURSIVE QueryLoop(_, _, _, _)
QueryLoop(stats, dh, qh, qa_idx) ==
    IF qa_idx >= Len(qh) THEN stats
    ELSE QueryLoop(RecordMatches(stats, qa_idx, ResultOrder(LshQuery(dh, qh[qa_idx + 1].minhash))),
                   dh, qh, qa_idx + 1)

EmptyStats ==
    [covered_paragraphs |-> {}, paragraph_coverage |-> EmptyMap, qa_matches |-> EmptyMap]

LinkStats(dh, qh) == QueryLoop(EmptyStats, dh, qh, 0)

\* line 190 divides by len(doc_hashes) with no guard.
LshRaises(dh) == Cardinality(DOMAIN dh) = 0

\* A coverage rate that counts the matched QA units instead of the segments.
CoverageRateOf_CountsQA(links, dh) ==
    Rate(Cardinality(DOMAIN links.qa_matches), Cardinality(DOMAIN dh))

\* A coverage rate that is the share of the segments left uncovered.
CoverageRateOf_Uncovered(links, dh) ==
    Rate(Cardinality(DOMAIN dh) - Cardinality(links.covered_paragraphs),
         Cardinality(DOMAIN dh))

\* line 190
CoverageRateOf(links, dh) ==
    Rate(Cardinality(links.covered_paragraphs), Cardinality(DOMAIN dh))

\* line 193
QaWithMatchOf(links) ==
    Cardinality({qa \in DOMAIN links.qa_matches : links.qa_matches[qa] # <<>>})

\* line 194
QaMatchRateOf(links, qh) ==
    IF Len(qh) > 0 THEN Rate(QaWithMatchOf(links), Len(qh)) ELSE Zero

compute_lsh_coverage(dh, qh) ==
    LET links == LinkStats(dh, qh)
    IN  [covered_paragraphs |-> links.covered_paragraphs,
         paragraph_coverage |-> links.paragraph_coverage,
         qa_matches         |-> links.qa_matches,
         total_paragraphs   |-> Cardinality(DOMAIN dh),
         coverage_rate      |-> CoverageRateOf(links, dh),
         qa_with_match      |-> QaWithMatchOf(links),
         qa_match_rate      |-> QaMatchRateOf(links, qh)]

\* lines 250-254: every QA pair of the caller's groups gets a 'topic' field.
TagTopics(qd) ==
    [t \in DOMAIN qd |->
        [qd[t] EXCEPT !.qa_pairs =
            [q \in DOMAIN qd[t].qa_pairs |->
                [qd[t].qa_pairs[q] EXCEPT !.topic =
                    IF qd[t].topic = None THEN "unknown" ELSE qd[t].topic]]]]

\* lines 267-291
HashResults(segs, qh, stats) ==
    [coverage_rate      |-> stats.coverage_rate,
     covered_paragraphs |-> Cardinality(stats.covered_paragraphs),
     total_paragraphs   |-> stats.total_paragraphs,
     qa_with_match      |-> stats.qa_with_match,
     qa_match_rate      |-> stats.qa_match_rate,
     paragraph_details  |->
        [i \in 0..(Len(segs) - 1) |->
            [index              |-> i,
             matched_qa_count   |-> Len(Get(stats.paragraph_coverage, i, <<>>)),
             matched_qa_indices |-> Get(stats.paragraph_coverage, i, <<>>)]],
     qa_details         |->
        [i \in 0..(Len(qh) - 1) |->
            [index              |-> i,
             topic              |-> qh[i + 1].topic,
             matched_paragraphs |-> Get(stats.qa_matches, i, <<>>)]]]

(***************************************************************************)
(* The inputs of the lexical stage.                                        *)
(***************************************************************************)
Documents == SeqsUpTo(ShortLines \cup LongLines, MaxLines)

TopicNames == {"A"}
QAPairs == {[toks |-> ts, topic |-> None] : ts \in TokenSets}
TopicGroups ==
    {[topic |-> n, qa_pairs |-> ps] :
        n \in TopicNames \cup {None}, ps \in SeqsUpTo(QAPairs, MaxQA)}

RECURSIVE CountQA(_)
CountQA(qd) == IF qd = <<>> THEN 0 ELSE Len(Head(qd).qa_pairs) + CountQA(Tail(qd))

QAData == {qd \in SeqsUpTo(TopicGroups, 2) : CountQA(qd) <= MaxQA}

Unset == [set |-> FALSE]

LexIdle ==
    /\ segments = <<>>
    /\ doc_hashes = EmptyMap
    /\ qa_hashes = <<>>
    /\ coverage_stats = Unset
    /\ hash_results = Unset

ExtIdle ==
    /\ extractor = Unset
    /\ all_points = <<>>
    /\ unique_points = <<>>

PrioIdle ==
    /\ kp_given = <<>>
    /\ knowledge_points = <<>>
    /\ prioritized_points = <<>>

SemIdle ==
    /\ sim = EmptyMap
    /\ sim_calls = EmptyMap
    /\ mapping_results = Unset
    /\ sem_stats = Unset
    /\ knowledge_gaps = Unset

\* A first run; the stages that do not query the index are not affected by
\* the string hashes.
RunIdle ==
    /\ hash_seed = 0
    /\ run = "first"
    /\ first_run = Unset

\* No sketch built on its own and no report written yet.
AuxIdle ==
    /\ token_lists = <<>>
    /\ sketches = <<>>
    /\ report = Unset

Init ==
    /\ pc = "start"
    /\ err = None
    /\ doc_content \in Documents
    /\ qa_data \in QAData
    /\ LexIdle
    /\ ExtIdle
    /\ PrioIdle
    /\ SemIdle
    /\ hash_seed \in HashSeeds
    /\ run = "first"
    /\ first_run = Unset
    /\ AuxIdle

(***************************************************************************)
(* hash_based_evaluation (lines 240-300).  The division of line 190 raises *)
(* ZeroDivisionError when the document has no segment; nothing catches it. *)
(***************************************************************************)
HashBasedEvaluation ==
    /\ pc = "start"
    /\ LET segs == split_document(doc_content)
           dh == compute_minhash(segs)
           qh == compute_qa_minhash(qa_data)
       IN  /\ segments' = segs
           /\ doc_hashes' = dh
           /\ qa_data' = TagTopics(qa_data)
           /\ qa_hashes' = qh
           /\ \/ /\ LshRaises(dh)
                 /\ pc' = "error"
                 /\ err' = "ZeroDivisionError"
                 /\ UNCHANGED <<coverage_stats, hash_results>>
              \/ /\ ~LshRaises(dh)
                 /\ pc' = "hashed"
                 /\ coverage_stats' = compute_lsh_coverage(dh, qh)
                 /\ hash_results' = HashResults(segs, qh, coverage_stats')
                 /\ UNCHANGED err
    /\ UNCHANGED <<doc_content, extVars, prioVars, semVars, runVars, auxVars>>

Next == HashBasedEvaluation

Spec == Init /\ [][Next]_vars

(***************************************************************************)
(* extract_knowledge_points (lines 304-385).  A text is a sequence of      *)
(* characters.  The collaborators' answers are part of the input: the      *)
(* entities and noun chunks of nlp(content), whether a model caller is     *)
(* given, and what each call_model returns (lines of text) or that it      *)
(* raises.                                                                 *)
(***************************************************************************)
TextPool ==
    { <<"A", "b", " ", "c">>, <<"a", "b", " ", "c">>,
      <<"a", "b", " ", " ", "c">>, <<"a", "b", "c">> }

\* A line of model output that carries the "no clear knowledge point" phrase.
NoPointLine == <<"#">>

LineOptions == TextPool \cup {NoPointLine}

Raised == [raises |-> TRUE, lines |-> <<>>]

Lower(c) == IF c = "A" THEN "a" ELSE IF c = "B" THEN "b" ELSE IF c = "C" THEN "c" ELSE c

IsSpace(c) == c = " "

\* re.sub(r'\s+', ' ', text): every run of whitespace becomes one space.
RECURSIVE CollapseSpaces(_)
CollapseSpaces(text) ==
    IF text = <<>> THEN <<>>
    ELSE IF IsSpace(Head(text))
         THEN IF Len(text) > 1 /\ IsSpace(text[2])
              THEN CollapseSpaces(Tail(text))
              ELSE <<" ">> \o CollapseSpaces(Tail(text))
         ELSE <<Head(text)>> \o CollapseSpaces(Tail(text))

\* A normalisation that forgets to lower the case.
NormalizeText_KeepsCase(text) == CollapseSpaces(text)

\* line 379
NormalizeText(text) == CollapseSpaces([i \in DOMAIN text |-> Lower(text[i])])

\* lines 313-318
EntityPoints(ents) ==
    [i \in DOMAIN ents |->
        [text |-> ents[i], type |-> "ORG", source |-> "entity",
         paragraph_idx |-> NoPara, priority |-> None]]

\* lines 321-327: noun chunks of more than 3 characters.
IsLongChunk(text) == Len(text) > 3

ChunkPoints(chunks) ==
    LET kept == SelectSeq(chunks, IsLongChunk)
    IN  [i \in DOMAIN kept |->
            [text |-> kept[i], type |-> "NOUN_PHRASE", source |-> "noun_chunk",
             paragraph_idx |-> NoPara, priority |-> None]]

\* line 357: the lines of one answer that are knowledge points.
IsPointLine(line) == line # <<>> /\ ~("#" \in Range(line))

\* lines 359-365
LlmPoints(lines, i) ==
    LET points == SelectSeq(lines, IsPointLine)
    IN  [j \in DOMAIN points |->
            [text |-> points[j], type |-> "LLM_EXTRACTED",
             source |-> "paragraph_" \o ToString(i),
             paragraph_idx |-> i, priority |-> None]]

\* lines 336-365: the loop over the paragraphs; a call that raises ends it,
\* and the except clause of line 369 keeps the points gathered so far.
RECURSIVE AdvancedFrom(_, _, _)
AdvancedFrom(paragraphs, calls, i) ==
    IF i >= Len(paragraphs) \/ i >= Len(calls) THEN <<>>
    ELSE IF calls[i + 1].raises THEN <<>>
         ELSE LlmPoints(calls[i + 1].lines, i) \o AdvancedFrom(paragraphs, calls, i + 1)

AdvancedPoints(content, ex) ==
    IF ex.has_caller THEN AdvancedFrom(split_document(content), ex.calls, 0) ELSE <<>>

\* A deduplication in which the last candidate of a text replaces the first.
RECURSIVE Dedup_LastWins(_, _, _)
Dedup_LastWins(points, unique, seen) ==
    IF points = <<>> THEN unique
    ELSE LET point == Head(points)
             normalized_text == NormalizeText(point.text)
         IN  IF normalized_text \notin seen
             THEN Dedup_LastWins(Tail(points), Append(unique, point), seen \cup {normalized_text})
             ELSE Dedup_LastWins(Tail(points),
                     [i \in DOMAIN unique |->
                         IF NormalizeText(unique[i].text) = normalized_text
                         THEN point ELSE unique[i]],
                     seen)

\* lines 376-382
RECURSIVE Dedup(_, _, _)
Dedup(points, unique, seen) ==
    IF points = <<>> THEN unique
    ELSE LET point == Head(points)
             normalized_text == NormalizeText(point.text)
         IN  IF normalized_text \notin seen
             THEN Dedup(Tail(points), Append(unique, point), seen \cup {normalized_text})
             ELSE Dedup(Tail(points), unique, seen)

\* line 373
AllPoints(content, ex) ==
    EntityPoints(ex.ents) \o ChunkPoints(ex.chunks) \o AdvancedPoints(content, ex)

extract_knowledge_points(content, ex) == Dedup(AllPoints(content, ex), <<>>, {})

\* The answers of the model caller to at most n calls, b lines in all: each
\* call returns lines or raises, and nothing is called after a raise.
RECURSIVE LlmCalls(_, _)
LlmCalls(n, b) ==
    IF n = 0 THEN {<<>>}
    ELSE {<<Raised>>} \cup
         UNION { { <<[raises |-> FALSE, lines |-> ls]>> \o rest :
                     rest \in LlmCalls(n - 1, b - Len(ls)) } :
                 ls \in SeqsUpTo(LineOptions, b) }

ExtractDocuments == SeqsUpTo({[len |-> 60, toks |-> {"t1"}]}, MaxLines)

InitExtract ==
    /\ pc = "extract"
    /\ err = None
    /\ doc_content \in ExtractDocuments
    /\ qa_data = <<>>
    /\ LexIdle
    /\ \E ents \in SeqsUpTo(TextPool, MaxCand) :
       \E chunks \in SeqsUpTo(TextPool, MaxCand - Len(ents)) :
       \E has_caller \in BOOLEAN :
       \E calls \in IF has_caller
                    THEN LlmCalls(Len(split_document(doc_content)),
                                  MaxCand - Len(ents) - Len(chunks))
                    ELSE {<<>>} :
          extractor = [ents |-> ents, chunks |-> chunks,
                       has_caller |-> has_caller, calls |-> calls]
    /\ all_points = <<>>
    /\ unique_points = <<>>
    /\ PrioIdle
    /\ SemIdle
    /\ RunIdle
    /\ AuxIdle

ExtractKnowledgePoints ==
    /\ pc = "extract"
    /\ pc' = "extracted"
    /\ all_points' = AllPoints(doc_content, extractor)
    /\ unique_points' = extract_knowledge_points(doc_content, extractor)
    /\ UNCHANGED <<err, doc_content, qa_data, lexVars, extractor, prioVars, semVars, runVars, auxVars>>

SpecExtract == InitExtract /\ [][ExtractKnowledgePoints]_vars

(***************************************************************************)
(* prioritize_knowledge_points (lines 387-406).  The points are the dicts  *)
(* of the caller's list: the loop sets their priority in place, and the    *)
(* returned list holds the same points in sorted order.                    *)
(***************************************************************************)
\* lines 390-393
\* A low-coverage list that holds every paragraph.
LowCoverageParagraphs_All(hr) ==
    {hr.paragraph_details[i].index : i \in DOMAIN hr.paragraph_details}

\* lines 390-393: the paragraphs no QA unit matched.
LowCoverageParagraphs(hr) ==
    {hr.paragraph_details[i].index :
        i \in {j \in DOMAIN hr.paragraph_details :
                  hr.paragraph_details[j].matched_qa_count = 0}}

\* A priority that is assigned only to a point that has none yet.
PriorityOf_KeepsOld(point, low) ==
    IF point.priority # None THEN point.priority
    ELSE IF point.paragraph_idx # NoPara /\ point.paragraph_idx \in low
         THEN "high" ELSE "normal"

\* lines 397-400
PriorityOf(point, low) ==
    IF point.paragraph_idx # NoPara /\ point.paragraph_idx \in low
    THEN "high" ELSE "normal"

\* lines 396-400
AssignPriorities(points, hr) ==
    [i \in DOMAIN points |->
        [points[i] EXCEPT !.priority = PriorityOf(points[i], LowCoverageParagraphs(hr))]]

\* lines 403 and 549: the sort key.
PriorityKey(x) == IF x.priority = "high" THEN 0 ELSE 1

\* An insertion that puts a point before the points of its own tier.
InsertByPriority_BeforeTies(sorted, x) ==
    LET before == {i \in DOMAIN sorted : PriorityKey(sorted[i]) < PriorityKey(x)}
        n == Cardinality(before)
    IN  SubSeq(sorted, 1, n) \o <<x>> \o SubSeq(sorted, n + 1, Len(sorted))

\* sorted() is stable: a point goes after the points whose key is not greater.
InsertByPriority(sorted, x) ==
    LET before == {i \in DOMAIN sorted : PriorityKey(sorted[i]) <= PriorityKey(x)}
        n == Cardinality(before)
    IN  SubSeq(sorted, 1, n) \o <<x>> \o SubSeq(sorted, n + 1, Len(sorted))

RECURSIVE SortInto(_, _)
SortInto(sorted, rest) ==
    IF rest = <<>> THEN sorted
    ELSE SortInto(InsertByPriority(sorted, Head(rest)), Tail(rest))

\* lines 403 and 549: sorted(points, key=lambda x: 0 if high else 1)
SortedByPriority(points) == SortInto(<<>>, points)

PointText(i) == <<"k", ToString(i)>>

\* The point lists a caller may pass for a document of n segments: distinct
\* texts, a source paragraph or none, and either no priority at all (a list
\* fresh from extract_knowledge_points) or the priorities an earlier run left.
PointsGiven(n) ==
    UNION { [1..k -> [paragraph_idx : {NoPara} \cup 0..(n - 1), priority : {None}]]
            \cup [1..k -> [paragraph_idx : {NoPara} \cup 0..(n - 1),
                           priority : {"high", "normal"}]] : k \in 0..MaxPrioPoints }

MakePoints(given) ==
    [i \in DOMAIN given |->
        [text |-> PointText(i - 1),
         type |-> IF given[i].paragraph_idx = NoPara THEN "ORG" ELSE "LLM_EXTRACTED",
         source |-> IF given[i].paragraph_idx = NoPara THEN "entity"
                    ELSE "paragraph_" \o ToString(given[i].paragraph_idx),
         paragraph_idx |-> given[i].paragraph_idx,
         priority |-> given[i].priority]]

\* Documents of long single-token lines; the tokens are interchangeable, so
\* the first line's token is fixed.
PrioDocuments ==
    {d \in SeqsUpTo({[len |-> 60, toks |-> {"t1"}], [len |-> 60, toks |-> {"t2"}]}, MaxLines) :
        d # <<>> => d[1].toks = {"t1"}}

PrioQAData ==
    {<<>>} \cup {<<[topic |-> "A", qa_pairs |-> <<qa>>]>> : qa \in QAPairs}

InitPrio ==
    /\ pc = "start"
    /\ err = None
    /\ doc_content \in PrioDocuments
    /\ qa_data \in PrioQAData
    /\ LexIdle
    /\ ExtIdle
    /\ \E given \in PointsGiven(Len(split_document(doc_content))) :
          /\ kp_given = MakePoints(given)
          /\ knowledge_points = MakePoints(given)
    /\ prioritized_points = <<>>
    /\ SemIdle
    /\ RunIdle
    /\ AuxIdle

PrioritizeKnowledgePoints ==
    /\ pc = "hashed"
    /\ pc' = "prioritized"
    /\ knowledge_points' = AssignPriorities(knowledge_points, hash_results)
    /\ prioritized_points' = SortedByPriority(knowledge_points')
    /\ UNCHANGED <<err, doc_content, qa_data, lexVars, extVars, kp_given, semVars, runVars, auxVars>>

SpecPrio == InitPrio /\ [][HashBasedEvaluation \/ PrioritizeKnowledgePoints]_vars

(***************************************************************************)
(* map_qa_to_knowledge (lines 408-475).  The similarity function is a      *)
(* collaborator: sim[<<q, text>>] is what text_similarity returns for the  *)
(* q-th QA unit (in group order) and a point's text, in tenths.  sim_calls *)
(* counts the evaluations of line 443 for the q-th QA unit and the k-th    *)
(* point.  A qa_id is <<topic_idx, qa_idx>>.                               *)
(***************************************************************************)
SimValues == {5, 6}

\* A threshold test that lets a similarity of exactly 0.5 through.
IsMatch_AtThreshold(similarity) == similarity >= SimThreshold

\* line 446
IsMatch(similarity) == similarity > SimThreshold

\* The state of the loops: the results so far, the evaluations counted and
\* qa_count.
EmptyMapping ==
    [mappings |-> <<>>, knowledge_coverage |-> EmptyMap,
     qa_knowledge_points |-> EmptyMap, calls |-> EmptyMap, qa_count |-> 0]

\* lines 441-458: the loop over the knowledge points for one QA unit.
RECURSIVE MatchPoints(_, _, _, _, _, _)
MatchPoints(acc, matched, points, sm, qa_id, k_idx) ==
    IF k_idx >= Len(points) THEN [acc |-> acc, matched_points |-> matched]
    ELSE LET similarity == sm[<<acc.qa_count, points[k_idx + 1].text>>]
             counted == [acc EXCEPT !.calls =
                            Put(acc.calls, <<acc.qa_count, k_idx>>,
                                Get(acc.calls, <<acc.qa_count, k_idx>>, 0) + 1)]
         IN  IF IsMatch(similarity)
             THEN MatchPoints(
                    [counted EXCEPT !.knowledge_coverage =
                        Put(counted.knowledge_coverage, k_idx,
                            Append(Get(counted.knowledge_coverage, k_idx, <<>>),
                                   [qa_id |-> qa_id, similarity |-> similarity]))],
                    Append(matched,
                           [knowledge_idx |-> k_idx,
                            knowledge_text |-> points[k_idx + 1].text,
                            similarity |-> similarity,
                            priority |-> IF points[k_idx + 1].priority = None
                                         THEN "normal" ELSE points[k_idx + 1].priority]),
                    points, sm, qa_id, k_idx + 1)
             ELSE MatchPoints(counted, matched, points, sm, qa_id, k_idx + 1)

\* lines 430-472: one QA unit.
MapOneQA(acc, points, sm, topic_name, topic_idx, qa_idx) ==
    LET qa_id == <<topic_idx, qa_idx>>
        done == MatchPoints(acc, <<>>, points, sm, qa_id, 0)
    IN  [done.acc EXCEPT
            !.qa_knowledge_points =
                Put(done.acc.qa_knowledge_points, qa_id,
                    [i \in DOMAIN done.matched_points |-> done.matched_points[i].knowledge_idx]),
            !.mappings =
                Append(done.acc.mappings,
                       [qa_id |-> qa_id, topic |-> topic_name,
                        matched_points |-> done.matched_points]),
            !.qa_count = done.acc.qa_count + 1]

\* lines 430-472: the loop over the QA pairs of one group.
RECURSIVE MapGroup(_, _, _, _, _, _)
MapGroup(acc, points, sm, topic, topic_idx, qa_idx) ==
    IF qa_idx >= Len(topic.qa_pairs) THEN acc
    ELSE MapGroup(MapOneQA(acc, points, sm, TopicNameOf(topic, topic_idx), topic_idx, qa_idx),
                  points, sm, topic, topic_idx, qa_idx + 1)

\* lines 427-472: the loop over the groups.
RECURSIVE MapGroups(_, _, _, _, _)
MapGroups(acc, qd, points, sm, topic_idx) ==
    IF topic_idx >= Len(qd) THEN acc
    ELSE MapGroups(MapGroup(acc, points, sm, qd[topic_idx + 1], topic_idx, 0),
                   qd, points, sm, topic_idx + 1)

map_qa_to_knowledge(qd, points, sm) == MapGroups(EmptyMapping, qd, points, sm, 0)

(***************************************************************************)
(* calculate_weighted_coverage (lines 477-530).                            *)
(***************************************************************************)
\* A weight that is the same for every priority.
WeightOf_Flat(point) == NormalWeight

\* A weight that counts the 'high' points only.
WeightOf_HighOnly(point) == IF point.priority = "high" THEN HighWeight ELSE 0

\* lines 483-486
WeightOf(point) == IF point.priority = "high" THEN HighWeight ELSE NormalWeight

KnowledgeWeights(points) == [i \in 0..(Len(points) - 1) |-> WeightOf(points[i + 1])]

RECURSIVE SumOver(_, _)
SumOver(f, S) ==
    IF S = {} THEN 0
    ELSE LET x == CHOOSE y \in S : TRUE IN f[x] + SumOver(f, S \ {x})

\* A count of the mappings instead of the distinct mapped points.
CoveredCount_PerMapping(mr) ==
    SumOver([k \in DOMAIN mr.knowledge_coverage |-> Len(mr.knowledge_coverage[k])],
            DOMAIN mr.knowledge_coverage)

\* lines 489, 493-494: len(covered_points)
CoveredCount(mr) == Cardinality(DOMAIN mr.knowledge_coverage)

\* lines 493-495
CoveredWeight(mr, weights) ==
    SumOver([k \in DOMAIN mr.knowledge_coverage |-> Get(weights, k, NormalWeight)],
            DOMAIN mr.knowledge_coverage)

\* A per-topic set that leaves out the points other topics reach too.
TopicCoverage_Exclusive(mr) ==
    LET topics == {mr.mappings[i].topic :
                      i \in {j \in DOMAIN mr.mappings : mr.mappings[j].matched_points # <<>>}}
        reached(t) ==
            UNION {{mr.mappings[i].matched_points[j].knowledge_idx :
                        j \in DOMAIN mr.mappings[i].matched_points} :
                   i \in {j \in DOMAIN mr.mappings : mr.mappings[j].topic = t}}
    IN  [t \in topics |->
            reached(t) \ UNION {reached(u) : u \in topics \ {t}}]

\* lines 502-506
TopicCoverage(mr) ==
    LET topics == {mr.mappings[i].topic :
                      i \in {j \in DOMAIN mr.mappings : mr.mappings[j].matched_points # <<>>}}
    IN  [t \in topics |->
            UNION {{mr.mappings[i].matched_points[j].knowledge_idx :
                        j \in DOMAIN mr.mappings[i].matched_points} :
                   i \in {j \in DOMAIN mr.mappings : mr.mappings[j].topic = t}}]

calculate_weighted_coverage(mr, points) ==
    LET weights == KnowledgeWeights(points)
        total_weight == SumOver(weights, DOMAIN weights)
        covered_weight == CoveredWeight(mr, weights)
        topic_coverage == TopicCoverage(mr)
    IN  [simple_coverage   |-> IF Len(points) > 0
                               THEN Rate(CoveredCount(mr), Len(points)) ELSE Zero,
         weighted_coverage |-> IF total_weight > 0
                               THEN Rate(covered_weight, total_weight) ELSE Zero,
         covered_points    |-> CoveredCount(mr),
         total_points      |-> Len(points),
         topic_coverage    |->
            [t \in DOMAIN topic_coverage |->
                [covered_points |-> Cardinality(topic_coverage[t]),
                 coverage_rate  |-> IF Len(points) > 0
                                    THEN Rate(Cardinality(topic_coverage[t]), Len(points))
                                    ELSE Zero]]]

(***************************************************************************)
(* identify_knowledge_gaps (lines 532-560).                                *)
(***************************************************************************)
\* A gap list that holds every point, covered or not.
RECURSIVE UncoveredFrom_All(_, _, _)
UncoveredFrom_All(points, covered, i) ==
    IF i >= Len(points) THEN <<>>
    ELSE <<[index |-> i, text |-> points[i + 1].text, type |-> points[i + 1].type,
            priority |-> points[i + 1].priority]>>
         \o UncoveredFrom_All(points, covered, i + 1)

\* A gap list collected from the last point to the first.
RECURSIVE UncoveredFrom_Reversed(_, _, _)
UncoveredFrom_Reversed(points, covered, i) ==
    IF i >= Len(points) THEN <<>>
    ELSE UncoveredFrom_Reversed(points, covered, i + 1)
         \o (IF i \notin covered
              THEN <<[index |-> i, text |-> points[i + 1].text, type |-> points[i + 1].type,
                      priority |-> points[i + 1].priority]>>
              ELSE <<>>)

\* A gap list whose indices count the points from one.
RECURSIVE UncoveredFrom_OneBased(_, _, _)
UncoveredFrom_OneBased(points, covered, i) ==
    IF i >= Len(points) THEN <<>>
    ELSE (IF i \notin covered
          THEN <<[index |-> i + 1, text |-> points[i + 1].text, type |-> points[i + 1].type,
                  priority |-> IF points[i + 1].priority = None
                               THEN "normal" ELSE points[i + 1].priority]>>
          ELSE <<>>) \o UncoveredFrom_OneBased(points, covered, i + 1)

\* lines 538-546
RECURSIVE UncoveredFrom(_, _, _)
UncoveredFrom(points, covered, i) ==
    IF i >= Len(points) THEN <<>>
    ELSE (IF i \notin covered
          THEN <<[index |-> i, text |-> points[i + 1].text, type |-> points[i + 1].type,
                  priority |-> IF points[i + 1].priority = None
                               THEN "normal" ELSE points[i + 1].priority]>>
          ELSE <<>>) \o UncoveredFrom(points, covered, i + 1)

IsHigh(x) == x.priority = "high"

identify_knowledge_gaps(mr, points) ==
    LET uncovered_points ==
            SortedByPriority(UncoveredFrom(points, DOMAIN mr.knowledge_coverage, 0))
        high_priority_gaps == SelectSeq(uncovered_points, IsHigh)
    IN  [all_gaps |-> uncovered_points,
         high_priority_gaps |-> high_priority_gaps,
         gap_count |-> Len(uncovered_points),
         high_priority_gap_count |-> Len(high_priority_gaps)]

(***************************************************************************)
(* The semantic stage: the inputs are the QA groups, the knowledge points  *)
(* with the priorities prioritize_knowledge_points assigned, its sorted    *)
(* list, and the similarity of every (QA unit, point) pair.                *)
(***************************************************************************)
SemGroups ==
    {[topic |-> n, qa_pairs |-> ps] :
        n \in TopicNames \cup {None},
        ps \in SeqsUpTo({[toks |-> {"t1"}, topic |-> None]}, MaxQA)}

SemQAData == {TagTopics(qd) : qd \in {x \in SeqsUpTo(SemGroups, 2) : CountQA(x) <= MaxQA}}

PrioritizedGiven ==
    UNION { [1..k -> [paragraph_idx : {0}, priority : {"high"}]
                     \cup [paragraph_idx : {NoPara}, priority : {"normal"}]] :
            k \in 0..MaxPoints }

InitSem ==
    /\ pc = "prioritized"
    /\ err = None
    /\ doc_content = <<>>
    /\ qa_data \in SemQAData
    /\ LexIdle
    /\ ExtIdle
    /\ \E given \in PrioritizedGiven :
          /\ kp_given = MakePoints(given)
          /\ knowledge_points = MakePoints(given)
          /\ prioritized_points = SortedByPriority(MakePoints(given))
    /\ sim \in [(0..(CountQA(qa_data) - 1)) \X {prioritized_points[i].text : i \in DOMAIN prioritized_points}
                 -> SimValues]
    /\ sim_calls = EmptyMap
    /\ mapping_results = Unset
    /\ sem_stats = Unset
    /\ knowledge_gaps = Unset
    /\ RunIdle
    /\ AuxIdle

MapQaToKnowledge ==
    /\ pc = "prioritized"
    /\ pc' = "mapped"
    /\ LET done == map_qa_to_knowledge(qa_data, prioritized_points, sim)
       IN  /\ mapping_results' = [mappings |-> done.mappings,
                                  knowledge_coverage |-> done.knowledge_coverage,
                                  qa_knowledge_points |-> done.qa_knowledge_points]
           /\ sim_calls' = done.calls
    /\ UNCHANGED <<err, doc_content, qa_data, lexVars, extVars, prioVars,
                   sim, sem_stats, knowledge_gaps, runVars, auxVars>>

CalculateWeightedCoverage ==
    /\ pc = "mapped"
    /\ pc' = "weighted"
    /\ sem_stats' = calculate_weighted_coverage(mapping_results, prioritized_points)
    /\ UNCHANGED <<err, doc_content, qa_data, lexVars, extVars, prioVars,
                   sim, sim_calls, mapping_results, knowledge_gaps, runVars, auxVars>>

IdentifyKnowledgeGaps ==
    /\ pc = "weighted"
    /\ pc' = "gaps"
    /\ knowledge_gaps' = identify_knowledge_gaps(mapping_results, prioritized_points)
    /\ UNCHANGED <<err, doc_content, qa_data, lexVars, extVars, prioVars,
                   sim, sim_calls, mapping_results, sem_stats, runVars, auxVars>>

SpecSem ==
    InitSem /\ [][MapQaToKnowledge \/ CalculateWeightedCoverage \/ IdentifyKnowledgeGaps]_vars

(***************************************************************************)
(* Two runs of the evaluation (main, lines 716-741, without the extraction *)
(* of the knowledge points, which are given): the stages in sequence, then *)
(* once more on the objects the first run was given and has modified in    *)
(* place, either as they are or with one more QA unit in the QA groups.    *)
(* first_run keeps what the first run returned.                            *)
(***************************************************************************)
RunLine(tok) == [len |-> 60, toks |-> {tok}]

RunDocuments ==
    {<<>>, <<RunLine("t1")>>, <<RunLine("t1"), RunLine("t1")>>,
     <<RunLine("t1"), RunLine("t2")>>}

RunQAUnits == {[toks |-> {tok}, topic |-> None] : tok \in Tokens}

RunQAData == {<<>>} \cup {<<[topic |-> "A", qa_pairs |-> <<qa>>]>> : qa \in RunQAUnits}

\* Up to two points, each from the first paragraph or from no paragraph,
\* fresh from the extractor.
RunPointsGiven(n) ==
    UNION { [1..k -> [paragraph_idx : {NoPara} \cup {i \in {0} : i < n},
                      priority : {None}]] : k \in 0..2 }

InitRuns ==
    /\ pc = "start"
    /\ err = None
    /\ doc_content \in RunDocuments
    /\ qa_data \in RunQAData
    /\ LexIdle
    /\ ExtIdle
    /\ \E given \in RunPointsGiven(Len(split_document(doc_content))) :
          /\ kp_given = MakePoints(given)
          /\ knowledge_points = MakePoints(given)
    /\ prioritized_points = <<>>
    /\ sim \in [(0..CountQA(qa_data)) \X {knowledge_points[i].text : i \in DOMAIN knowledge_points}
                 -> SimValues]
    /\ sim_calls = EmptyMap
    /\ mapping_results = Unset
    /\ sem_stats = Unset
    /\ knowledge_gaps = Unset
    /\ hash_seed \in HashSeeds
    /\ run = "first"
    /\ first_run = Unset
    /\ AuxIdle

\* The QA groups with one more QA unit, in a group of its own or at the end
\* of the last group.
WithQaUnit(qd, qa, new_group) ==
    IF new_group \/ qd = <<>>
    THEN Append(qd, [topic |-> None, qa_pairs |-> <<qa>>])
    ELSE [qd EXCEPT ![Len(qd)].qa_pairs = Append(@, qa)]

RunOver == pc \in {"gaps", "error"}

\* What a run hands back.
RunResults ==
    [pc |-> pc, err |-> err, hash_results |-> hash_results,
     coverage_stats |-> coverage_stats, prioritized_points |-> prioritized_points,
     sem_stats |-> sem_stats, knowledge_gaps |-> knowledge_gaps]

\* The caller starts the second run, in a process with string hashes of its
\* own; the locals of the first run are gone, the caller's objects stay.
StartSecondRun(kind, qd) ==
    /\ RunOver
    /\ run = "first"
    /\ run' = kind
    /\ first_run' = RunResults
    /\ pc' = "start"
    /\ err' = None
    /\ hash_seed' \in HashSeeds
    /\ qa_data' = qd
    /\ segments' = <<>>
    /\ doc_hashes' = EmptyMap
    /\ qa_hashes' = <<>>
    /\ coverage_stats' = Unset
    /\ hash_results' = Unset
    /\ prioritized_points' = <<>>
    /\ sim_calls' = EmptyMap
    /\ mapping_results' = Unset
    /\ sem_stats' = Unset
    /\ knowledge_gaps' = Unset
    /\ UNCHANGED <<doc_content, extVars, kp_given, knowledge_points, sim, auxVars>>

RunAgain == StartSecondRun("again", qa_data)

AddQaUnit ==
    \E qa \in RunQAUnits, new_group \in BOOLEAN :
        StartSecondRun("added", WithQaUnit(qa_data, qa, new_group))

SpecRuns ==
    InitRuns /\ [][HashBasedEvaluation \/ PrioritizeKnowledgePoints \/ MapQaToKnowledge
                   \/ CalculateWeightedCoverage \/ IdentifyKnowledgeGaps
                   \/ RunAgain \/ AddQaUnit]_vars

(***************************************************************************)
(* compute_minhash and compute_lsh_coverage called on their own, with      *)
(* segments and QA sketches of the caller's making: a segment may be the   *)
(* empty text and a QA sketch may be the sketch of no token.               *)
(***************************************************************************)
IndexSegments == {[len |-> 0, toks |-> {}]} \cup LongLines

IndexQAHashes ==
    UNION { [1..n -> {[minhash |-> MinHash(ts), topic |-> "A", qa_idx |-> 0, topic_idx |-> 0] :
                          ts \in SUBSET Tokens}] : n \in 0..MaxQA }

InitIndex ==
    /\ pc = "index"
    /\ err = None
    /\ doc_content = <<>>
    /\ qa_data = <<>>
    /\ segments \in SeqsUpTo(IndexSegments, MaxLines)
    /\ doc_hashes = EmptyMap
    /\ qa_hashes \in IndexQAHashes
    /\ coverage_stats = Unset
    /\ hash_results = Unset
    /\ ExtIdle
    /\ PrioIdle
    /\ SemIdle
    /\ RunIdle
    /\ AuxIdle

ComputeMinhash ==
    /\ pc = "index"
    /\ pc' = "sketched"
    /\ doc_hashes' = compute_minhash(segments)
    /\ UNCHANGED <<err, doc_content, qa_data, segments, qa_hashes, coverage_stats,
                   hash_results, extVars, prioVars, semVars, runVars, auxVars>>

ComputeLshCoverage ==
    /\ pc = "sketched"
    /\ \/ /\ LshRaises(doc_hashes)
          /\ pc' = "error"
          /\ err' = "ZeroDivisionError"
          /\ UNCHANGED coverage_stats
       \/ /\ ~LshRaises(doc_hashes)
          /\ pc' = "queried"
          /\ coverage_stats' = compute_lsh_coverage(doc_hashes, qa_hashes)
          /\ UNCHANGED err
    /\ UNCHANGED <<doc_content, qa_data, segments, doc_hashes, qa_hashes,
                   hash_results, extVars, prioVars, semVars, runVars, auxVars>>

SpecIndex == InitIndex /\ [][ComputeMinhash \/ ComputeLshCoverage]_vars

(***************************************************************************)
(* The sketches of two token lists, built by the update loop.              *)
(***************************************************************************)
InitSketch ==
    /\ pc = "tokens"
    /\ err = None
    /\ doc_content = <<>>
    /\ qa_data = <<>>
    /\ LexIdle
    /\ ExtIdle
    /\ PrioIdle
    /\ SemIdle
    /\ RunIdle
    /\ token_lists \in [1..2 -> SeqsUpTo(Tokens, MaxTokens)]
    /\ sketches = <<>>
    /\ report = Unset

BuildSketches ==
    /\ pc = "tokens"
    /\ pc' = "sketches"
    /\ sketches' = [i \in DOMAIN token_lists |-> MinHashOfTokens(token_lists[i])]
    /\ UNCHANGED <<err, doc_content, qa_data, lexVars, extVars, prioVars, semVars,
                   runVars, token_lists, report>>

SpecSketch == InitSketch /\ [][BuildSketches]_vars

(***************************************************************************)
(* split_document on documents made of blocks of lines with one or two     *)
(* blank lines between them, followed by compute_minhash.  Two short lines *)
(* make a block of 61 characters: long enough as a blank-line piece, too   *)
(* short line by line.                                                     *)
(***************************************************************************)
MaxBlocks == 5

Blocks ==
    {<<[len |-> 30, toks |-> {"t1"}]>>,
     <<[len |-> 60, toks |-> {"t1"}]>>,
     <<[len |-> 60, toks |-> {"t2"}]>>,
     <<[len |-> 30, toks |-> {"t1"}], [len |-> 30, toks |-> {"t2"}]>>}

RECURSIVE JoinBlocks(_, _)
JoinBlocks(bs, sep) ==
    IF bs = <<>> THEN <<>>
    ELSE IF Len(bs) = 1 THEN bs[1]
         ELSE bs[1] \o sep \o JoinBlocks(Tail(bs), sep)

SplitDocuments ==
    {JoinBlocks(bs, sep) : bs \in SeqsUpTo(Blocks, MaxBlocks),
                           sep \in {<<BlankLine>>, <<BlankLine, BlankLine>>}}

InitSplit ==
    /\ pc = "document"
    /\ err = None
    /\ doc_content \in SplitDocuments
    /\ qa_data = <<>>
    /\ LexIdle
    /\ ExtIdle
    /\ PrioIdle
    /\ SemIdle
    /\ RunIdle
    /\ AuxIdle

SplitDocument ==
    /\ pc = "document"
    /\ pc' = "index"
    /\ segments' = split_document(doc_content)
    /\ UNCHANGED <<err, doc_content, qa_data, doc_hashes, qa_hashes, coverage_stats,
                   hash_results, extVars, prioVars, semVars, runVars, auxVars>>

SpecSplit == InitSplit /\ [][SplitDocument \/ ComputeMinhash]_vars

(***************************************************************************)
(* generate_report (lines 608-691) at the end of a run of main: the JSON   *)
(* report and the list of gaps of the text report.  The suggestions are    *)
(* named by what they are about.  The document has no segment or one, and  *)
(* there is one QA unit, so that a point of the first paragraph is 'high'  *)
(* exactly when the QA unit does not match the document.                   *)
(***************************************************************************)
MaxReportPoints == 6
ReportLimit == 5
TextReportLimit == 10

\* A slice that keeps the last n entries.
FirstN_Last(s, n) == IF Len(s) <= n THEN s ELSE SubSeq(s, Len(s) - n + 1, Len(s))

\* s[:n]
FirstN(s, n) == IF Len(s) <= n THEN s ELSE SubSeq(s, 1, n)

\* rate < 0.7
LowRate(r) == 10 * r[1] < 7 * r[2]

generate_report(hr, kr) ==
    LET stats == kr.coverage_stats
        gaps == kr.knowledge_gaps
        shown == FirstN(gaps.high_priority_gaps, ReportLimit)
        listed == FirstN(gaps.high_priority_gaps, TextReportLimit)
    IN  [summary |->
            [hash_coverage_rate          |-> hr.coverage_rate,
             knowledge_coverage_rate     |-> stats.simple_coverage,
             weighted_knowledge_coverage |-> stats.weighted_coverage,
             total_paragraphs            |-> hr.total_paragraphs,
             covered_paragraphs          |-> hr.covered_paragraphs,
             total_knowledge_points      |-> stats.total_points,
             covered_knowledge_points    |-> stats.covered_points,
             uncovered_knowledge_points  |-> gaps.gap_count,
             high_priority_gaps          |-> gaps.high_priority_gap_count],
         recommendations |->
            [suggested_improvements |->
                (IF gaps.high_priority_gap_count > 0 THEN <<"high_priority_gaps">> ELSE <<>>)
                \o (IF LowRate(hr.coverage_rate) THEN <<"paragraph_coverage">> ELSE <<>>)
                \o (IF LowRate(stats.simple_coverage) THEN <<"knowledge_coverage">> ELSE <<>>),
             uncovered_areas |->
                IF gaps.high_priority_gap_count > 0
                THEN [i \in DOMAIN shown |->
                        [knowledge_point |-> shown[i].text, priority |-> shown[i].priority]]
                ELSE <<>>],
         text_report_gaps |-> [i \in DOMAIN listed |-> listed[i].text]]

ReportDocuments == {<<>>, <<RunLine("t1")>>}

ReportQAData == {<<[topic |-> "A", qa_pairs |-> <<qa>>]>> : qa \in RunQAUnits}

ReportPointsGiven(n) ==
    UNION { [1..k -> [paragraph_idx : {NoPara} \cup {i \in {0} : i < n},
                      priority : {None}]] : k \in 0..MaxReportPoints }

InitReport ==
    /\ pc = "start"
    /\ err = None
    /\ doc_content \in ReportDocuments
    /\ qa_data \in ReportQAData
    /\ LexIdle
    /\ ExtIdle
    /\ \E given \in ReportPointsGiven(Len(split_document(doc_content))) :
          /\ kp_given = MakePoints(given)
          /\ knowledge_points = MakePoints(given)
    /\ prioritized_points = <<>>
    /\ sim \in [(0..(CountQA(qa_data) - 1)) \X {knowledge_points[i].text : i \in DOMAIN knowledge_points}
                 -> SimValues]
    /\ sim_calls = EmptyMap
    /\ mapping_results = Unset
    /\ sem_stats = Unset
    /\ knowledge_gaps = Unset
    /\ RunIdle
    /\ AuxIdle

GenerateReport ==
    /\ pc = "gaps"
    /\ pc' = "reported"
    /\ report' = generate_report(hash_results,
                                 [coverage_stats |-> sem_stats, knowledge_gaps |-> knowledge_gaps])
    /\ UNCHANGED <<err, doc_content, qa_data, lexVars, extVars, prioVars, semVars, runVars,
                   token_lists, sketches>>

SpecReport ==
    InitReport /\ [][HashBasedEvaluation \/ PrioritizeKnowledgePoints \/ MapQaToKnowledge
                      \/ CalculateWeightedCoverage \/ IdentifyKnowledgeGaps
                      \/ GenerateReport]_vars

(***************************************************************************)
(* Claims about the lexical stage.                                         *)
(***************************************************************************)
NumSegments == Len(segments)
NumQA == Len(qa_hashes)
HashStageOver == pc \in {"hashed", "error"}

\* The segments the query of QA unit q (0-based) returns.
Returned(q) == LshQuery(doc_hashes, qa_hashes[q + 1].minhash)

\* C1: when the document splits into zero segments the lexical stage
\* completes without error and yields coverage_rate = 0 and
\* qa_match_rate = 0 (no division by zero).
C1_ZeroSegmentsGiveZeroRates ==
    (HashStageOver /\ NumSegments = 0) =>
        /\ pc = "hashed"
        /\ RateIsZero(coverage_stats.coverage_rate)
        /\ RateIsZero(coverage_stats.qa_match_rate)

\* C2: for every input, zero segments or QA units included, the rates a
\* run produces are defined and lie in [0, 1].
C2_RatesDefinedInUnitInterval ==
    HashStageOver =>
        /\ pc = "hashed"
        /\ RateInUnit(coverage_stats.coverage_rate)
        /\ RateInUnit(coverage_stats.qa_match_rate)

\* C3: after compute_lsh_coverage, coverage_rate = (distinct segments
\* returned by at least one QA query) / (segments) and qa_match_rate =
\* (QA units whose query returned a segment) / (QA units), 0 without QA units.
C3_RatesAreTheQuotients ==
    pc = "hashed" =>
        LET covered == {p \in 0..(NumSegments - 1) :
                            \E q \in 0..(NumQA - 1) : p \in Returned(q)}
            matched == {q \in 0..(NumQA - 1) : Returned(q) # {}}
        IN  /\ RateEq(coverage_stats.coverage_rate, Cardinality(covered), NumSegments)
            /\ IF NumQA = 0
               THEN RateIsZero(coverage_stats.qa_match_rate)
               ELSE RateEq(coverage_stats.qa_match_rate, Cardinality(matched), NumQA)

\* One of two segments is returned by both QA queries and counts once.
C3_Witness ==
    /\ pc = "hashed"
    /\ NumSegments = 2 /\ NumQA = 2
    /\ Cardinality(coverage_stats.covered_paragraphs) = 1
    /\ \E p \in coverage_stats.covered_paragraphs :
          Len(coverage_stats.paragraph_coverage[p]) = 2

\* C4: the two link maps agree (q in paragraph_coverage[p] iff p in
\* qa_matches[q]) and covered_paragraphs is exactly the set of segments
\* with a non-empty paragraph_coverage.
C4_LinkMapsConsistent ==
    pc = "hashed" =>
        /\ DOMAIN coverage_stats.paragraph_coverage \subseteq 0..(NumSegments - 1)
        /\ DOMAIN coverage_stats.qa_matches \subseteq 0..(NumQA - 1)
        /\ \A p \in 0..(NumSegments - 1) : \A q \in 0..(NumQA - 1) :
              q \in Range(Get(coverage_stats.paragraph_coverage, p, <<>>))
              <=> p \in Range(Get(coverage_stats.qa_matches, q, <<>>))
        /\ coverage_stats.covered_paragraphs =
              {p \in 0..(NumSegments - 1) :
                  Get(coverage_stats.paragraph_coverage, p, <<>>) # <<>>}

\* A segment linked to two QA units and a QA unit linked to two segments.
C4_Witness ==
    /\ pc = "hashed"
    /\ \E p \in DOMAIN coverage_stats.paragraph_coverage :
          Len(coverage_stats.paragraph_coverage[p]) = 2
    /\ \E q \in DOMAIN coverage_stats.qa_matches :
          Len(coverage_stats.qa_matches[q]) = 2

(***************************************************************************)
(* Claims about extract_knowledge_points.                                  *)
(***************************************************************************)
\* The words of a text, in lower case: two texts are the same text up to
\* case and whitespace exactly when they have the same words.
RECURSIVE Words(_, _)
Words(text, cur) ==
    IF text = <<>> THEN (IF cur = <<>> THEN <<>> ELSE <<cur>>)
    ELSE IF IsSpace(Head(text))
         THEN (IF cur = <<>> THEN <<>> ELSE <<cur>>) \o Words(Tail(text), <<>>)
         ELSE Words(Tail(text), Append(cur, Lower(Head(text))))

SameText(a, b) == Words(a, <<>>) = Words(b, <<>>)

\* The positions of the candidates no earlier candidate has the text of.
FirstOccurrences ==
    {i \in DOMAIN all_points :
        \A j \in 1..(i - 1) : ~SameText(all_points[j].text, all_points[i].text)}

UncoveredSegments == (0..(NumSegments - 1)) \ coverage_stats.covered_paragraphs

\* C5: after prioritize_knowledge_points a point is 'high' iff it carries a
\* source paragraph index and that index is a segment with zero lexical QA
\* matches (matched_qa_count = 0, i.e. not in covered_paragraphs); every
\* other point is 'normal', whatever priority it carried before the call.
C5_HighIffUncoveredSource ==
    pc = "prioritized" =>
        /\ \A p \in 0..(NumSegments - 1) :
              hash_results.paragraph_details[p].matched_qa_count = 0
              <=> p \in UncoveredSegments
        /\ Len(knowledge_points) = Len(kp_given)
        /\ \A i \in DOMAIN kp_given :
              /\ knowledge_points[i].paragraph_idx = kp_given[i].paragraph_idx
              /\ knowledge_points[i].priority =
                    IF /\ kp_given[i].paragraph_idx # NoPara
                       /\ kp_given[i].paragraph_idx \in UncoveredSegments
                    THEN "high" ELSE "normal"
        /\ \A i \in DOMAIN prioritized_points :
              prioritized_points[i].priority =
                    IF /\ prioritized_points[i].paragraph_idx # NoPara
                       /\ prioritized_points[i].paragraph_idx \in UncoveredSegments
                    THEN "high" ELSE "normal"

\* A point that came in as 'normal' leaves as 'high', one that came in as
\* 'high' leaves as 'normal', and of two segments one is covered.
C5_Witness ==
    /\ pc = "prioritized"
    /\ Cardinality(UncoveredSegments) = 1 /\ NumSegments = 2
    /\ \E i, j \in DOMAIN kp_given :
          /\ kp_given[i].priority = "normal" /\ knowledge_points[i].priority = "high"
          /\ kp_given[j].priority = "high" /\ knowledge_points[j].priority = "normal"
          /\ kp_given[j].paragraph_idx # NoPara

\* The positions of the points of one priority, in list order.
TierOf(points, prio) == SelectSeq(points, LAMBDA x : x.priority = prio)

\* C6: the list prioritize_knowledge_points returns is a permutation of its
\* input in which every 'high' point precedes every 'normal' point and each
\* tier keeps its input order (a stable partition).
C6_StablePartition ==
    pc = "prioritized" =>
        prioritized_points =
            TierOf(knowledge_points, "high") \o TierOf(knowledge_points, "normal")

\* A 'high' point stands between two 'normal' points in the input: it moves
\* to the front and the two keep their order.
C6_Witness ==
    /\ pc = "prioritized"
    /\ Len(knowledge_points) = 3
    /\ knowledge_points[1].priority = "normal"
    /\ knowledge_points[2].priority = "high"
    /\ knowledge_points[3].priority = "normal"
    /\ prioritized_points =
          <<knowledge_points[2], knowledge_points[1], knowledge_points[3]>>

(***************************************************************************)
(* Claims about the semantic stage.                                        *)
(***************************************************************************)
Mapped == pc \in {"mapped", "weighted", "gaps"}
Weighted == pc \in {"weighted", "gaps"}

NumPoints == Len(prioritized_points)

QaIds ==
    UNION {{<<t, q>> : q \in 0..(Len(qa_data[t + 1].qa_pairs) - 1)} :
           t \in 0..(Len(qa_data) - 1)}

\* The position of a QA unit in group order.
FlatPos(id) == CountQA(SubSeq(qa_data, 1, id[1])) + id[2]

\* The similarity of a QA unit and the k-th point of the prioritized list.
SimOf(id, k) == sim[<<FlatPos(id), prioritized_points[k + 1].text>>]

\* k is among the points recorded for the QA unit, on each of the three sides.
InQaPoints(id, k) ==
    \E i \in DOMAIN mapping_results.qa_knowledge_points[id] :
        mapping_results.qa_knowledge_points[id][i] = k

InMatchedPoints(id, k) ==
    \E m \in DOMAIN mapping_results.mappings :
        /\ mapping_results.mappings[m].qa_id = id
        /\ \E j \in DOMAIN mapping_results.mappings[m].matched_points :
              mapping_results.mappings[m].matched_points[j].knowledge_idx = k

InKnowledgeCoverage(id, k) ==
    /\ k \in DOMAIN mapping_results.knowledge_coverage
    /\ \E j \in DOMAIN mapping_results.knowledge_coverage[k] :
          mapping_results.knowledge_coverage[k][j].qa_id = id

\* C8: map_qa_to_knowledge evaluates the similarity of every (QA unit,
\* knowledge point) pair exactly once; the pair is recorded if and only if
\* its similarity is strictly greater than 0.5 (5 tenths), so exactly 0.5 is
\* no match; and the three records agree: k is in qa_knowledge_points[qa_id]
\* iff it is in that QA unit's matched_points iff qa_id is in
\* knowledge_coverage[k], each at most once.
C8_EveryPairOnceMappedIffAboveHalf ==
    Mapped =>
        LET ids == QaIds
            qkp == mapping_results.qa_knowledge_points
            kc == mapping_results.knowledge_coverage
            maps == mapping_results.mappings
        IN  /\ DOMAIN sim_calls = (0..(Cardinality(ids) - 1)) \X (0..(NumPoints - 1))
            /\ \A pair \in DOMAIN sim_calls : sim_calls[pair] = 1
            /\ DOMAIN qkp = ids
            /\ Len(maps) = Cardinality(ids)
            /\ \A id \in ids :
                  /\ Cardinality({m \in DOMAIN maps : maps[m].qa_id = id}) = 1
                  /\ \A k \in 0..(NumPoints - 1) :
                        /\ InQaPoints(id, k) <=> 2 * SimOf(id, k) > 10
                        /\ InQaPoints(id, k) <=> InMatchedPoints(id, k)
                        /\ InQaPoints(id, k) <=> InKnowledgeCoverage(id, k)
                        /\ Cardinality({i \in DOMAIN qkp[id] : qkp[id][i] = k}) <= 1
                        /\ k \in DOMAIN kc =>
                              Cardinality({j \in DOMAIN kc[k] : kc[k][j].qa_id = id}) <= 1

\* Two QA units and two points: one QA unit maps to both points, one point is
\* mapped from both QA units, and the pair whose similarity is exactly 0.5 is
\* recorded nowhere.
C8_Witness ==
    /\ pc = "mapped"
    /\ NumPoints = 2
    /\ Cardinality(QaIds) = 2
    /\ \E id \in QaIds : Len(mapping_results.qa_knowledge_points[id]) = 2
    /\ \E k \in DOMAIN mapping_results.knowledge_coverage :
          Len(mapping_results.knowledge_coverage[k]) = 2
    /\ \E id \in QaIds, k \in 0..1 :
          /\ SimOf(id, k) = 5
          /\ ~InQaPoints(id, k)
          /\ ~InKnowledgeCoverage(id, k)

\* The points at least one QA unit maps to, read from the QA units' records.
MappedPoints ==
    {k \in 0..(NumPoints - 1) : \E id \in QaIds : InMatchedPoints(id, k)}

\* C9: calculate_weighted_coverage returns covered_points = the number of
\* distinct knowledge points that at least one QA unit maps to, a point
\* counting once however many QA units map to it, and simple_coverage = that
\* number / the number of knowledge points (0 when there are no points).
C9_SimpleCoverageCountsDistinctPoints ==
    Weighted =>
        LET distinct == Cardinality(MappedPoints)
        IN  /\ sem_stats.covered_points = distinct
            /\ IF NumPoints > 0
               THEN RateEq(sem_stats.simple_coverage, distinct, NumPoints)
               ELSE RateIsZero(sem_stats.simple_coverage)

\* Two points, one of them mapped from two QA units and the other from none:
\* covered_points is 1 and simple_coverage 1/2.
C9_Witness ==
    /\ pc = "weighted"
    /\ NumPoints = 2
    /\ \E k \in MappedPoints :
          Cardinality({id \in QaIds : InMatchedPoints(id, k)}) = 2
    /\ sem_stats.covered_points = 1
    /\ RateEq(sem_stats.simple_coverage, 1, 2)

\* The weight of the k-th point in tenths: 1.5 for 'high', 1.0 otherwise.
TenthsOf(k) == IF prioritized_points[k + 1].priority = "high" THEN 15 ELSE 10

RECURSIVE SumTenths(_)
SumTenths(S) ==
    IF S = {} THEN 0
    ELSE LET k == CHOOSE x \in S : TRUE IN TenthsOf(k) + SumTenths(S \ {k})

\* The example: two points, the 'high' one uncovered, the 'normal' one covered.
HighUncoveredNormalCovered ==
    /\ NumPoints = 2
    /\ prioritized_points[1].priority = "high"
    /\ prioritized_points[2].priority = "normal"
    /\ MappedPoints = {1}

\* C10: calculate_weighted_coverage returns weighted_coverage = (sum of the
\* weights of the points at least one QA unit maps to) / (sum of the weights
\* of all points), a 'high' point weighing 1.5 and any other 1.0; with two
\* points, the 'high' one uncovered and the 'normal' one covered, it is
\* 1.0/2.5 and simple_coverage is 1/2.
C10_WeightedCoverageIsWeightRatio ==
    Weighted =>
        LET total == SumTenths(0..(NumPoints - 1))
        IN
        /\ IF total > 0
           THEN RateEq(sem_stats.weighted_coverage, SumTenths(MappedPoints), total)
           ELSE RateIsZero(sem_stats.weighted_coverage)
        /\ HighUncoveredNormalCovered =>
              /\ RateEq(sem_stats.weighted_coverage, 10, 25)
              /\ RateEq(sem_stats.simple_coverage, 1, 2)

\* The example has happened.
C10_Witness ==
    /\ pc = "weighted"
    /\ HighUncoveredNormalCovered
    /\ sem_stats.weighted_coverage = Rate(10, 25)

\* C11: with zero knowledge points the semantic stage completes without
\* error; simple_coverage and weighted_coverage are defined and 0, every
\* per-topic coverage_rate is 0 and the gap list is empty.
C11_ZeroPointsGiveZeroCoverage ==
    NumPoints = 0 =>
        /\ err = None
        /\ Weighted =>
              /\ RateInUnit(sem_stats.simple_coverage)
              /\ RateIsZero(sem_stats.simple_coverage)
              /\ RateInUnit(sem_stats.weighted_coverage)
              /\ RateIsZero(sem_stats.weighted_coverage)
              /\ \A t \in DOMAIN sem_stats.topic_coverage :
                    /\ RateInUnit(sem_stats.topic_coverage[t].coverage_rate)
                    /\ RateIsZero(sem_stats.topic_coverage[t].coverage_rate)
        /\ pc = "gaps" =>
              /\ knowledge_gaps.all_gaps = <<>>
              /\ knowledge_gaps.gap_count = 0

\* QA units but no knowledge point, and the three functions have returned.
C11_Witness ==
    /\ pc = "gaps"
    /\ NumPoints = 0
    /\ Cardinality(QaIds) = 2
    /\ sem_stats.simple_coverage = Zero
    /\ sem_stats.total_points = 0

GapIndices == {knowledge_gaps.all_gaps[g].index : g \in DOMAIN knowledge_gaps.all_gaps}

\* C12: all_gaps holds exactly the knowledge points no QA unit maps to, each
\* once, and no point with a mapping; each entry carries the text, type and
\* priority of its point.
C12_GapsAreTheUnmappedPoints ==
    pc = "gaps" =>
        /\ GapIndices = (0..(NumPoints - 1)) \ MappedPoints
        /\ Len(knowledge_gaps.all_gaps) = Cardinality(GapIndices)
        /\ \A g \in DOMAIN knowledge_gaps.all_gaps :
              LET gap == knowledge_gaps.all_gaps[g]
                  point == prioritized_points[gap.index + 1]
              IN  /\ gap.text = point.text
                  /\ gap.type = point.type
                  /\ gap.priority = point.priority

\* Two points, one mapped and one not: the gap list is the unmapped one.
C12_Witness ==
    /\ pc = "gaps"
    /\ NumPoints = 2
    /\ Cardinality(MappedPoints) = 1
    /\ Len(knowledge_gaps.all_gaps) = 1
    /\ knowledge_gaps.all_gaps[1].index \notin MappedPoints

\* The place of a point in the list the extractor returned.
DiscoveryIndex(text) == CHOOSE i \in DOMAIN knowledge_points : knowledge_points[i].text = text

\* C13: in all_gaps every 'high' gap comes before every 'normal' gap, and
\* the gaps of one priority keep the discovery order of their points.
C13_GapsHighFirstInDiscoveryOrder ==
    pc = "gaps" =>
        \A a, b \in DOMAIN knowledge_gaps.all_gaps :
            a < b =>
                LET ga == knowledge_gaps.all_gaps[a]
                    gb == knowledge_gaps.all_gaps[b]
                IN  /\ ~(ga.priority # "high" /\ gb.priority = "high")
                    /\ ga.priority = gb.priority =>
                          DiscoveryIndex(ga.text) < DiscoveryIndex(gb.text)

\* Two gaps: the 'high' one was discovered after the 'normal' one and is
\* listed before it.
C13_Witness ==
    /\ pc = "gaps"
    /\ Len(knowledge_gaps.all_gaps) = 2
    /\ knowledge_gaps.all_gaps[1].priority = "high"
    /\ knowledge_gaps.all_gaps[2].priority = "normal"
    /\ DiscoveryIndex(knowledge_gaps.all_gaps[1].text)
          > DiscoveryIndex(knowledge_gaps.all_gaps[2].text)

\* The topic name map_qa_to_knowledge gives a QA unit.
TopicOf(id) == TopicNameOf(qa_data[id[1] + 1], id[1])

\* The points at least one QA unit of the topic maps to.
PointsUnder(t) ==
    {k \in 0..(NumPoints - 1) :
        \E id \in QaIds : TopicOf(id) = t /\ InMatchedPoints(id, k)}

\* C14: a per-topic entry has covered_points = the number of distinct points
\* matched by at least one QA unit of that topic and coverage_rate = that
\* number / the number of all knowledge points; a point reached from several
\* topics counts for each.
C14_TopicEntryCountsItsPoints ==
    Weighted =>
        \A t \in DOMAIN sem_stats.topic_coverage :
            LET reached == Cardinality(PointsUnder(t))
                entry == sem_stats.topic_coverage[t]
            IN  /\ entry.covered_points = reached
                /\ IF NumPoints > 0
                   THEN RateEq(entry.coverage_rate, reached, NumPoints)
                   ELSE RateIsZero(entry.coverage_rate)

\* Two topics reach the same point of two; each entry counts it.
C14_Witness ==
    /\ pc = "weighted"
    /\ NumPoints = 2
    /\ \E t, u \in DOMAIN sem_stats.topic_coverage :
          /\ t # u
          /\ PointsUnder(t) \cap PointsUnder(u) # {}
          /\ sem_stats.topic_coverage[t].covered_points = 1
          /\ sem_stats.topic_coverage[u].covered_points = 1
          /\ RateEq(sem_stats.topic_coverage[t].coverage_rate, 1, 2)

\* C15: topic_coverage has an entry for every topic that has a QA unit; the
\* entry of a topic none of whose QA units matches a point has
\* covered_points = 0 and coverage_rate = 0.
C15_EveryTopicHasAnEntry ==
    Weighted =>
        \A id \in QaIds :
            /\ TopicOf(id) \in DOMAIN sem_stats.topic_coverage
            /\ PointsUnder(TopicOf(id)) = {} =>
                  /\ sem_stats.topic_coverage[TopicOf(id)].covered_points = 0
                  /\ RateIsZero(sem_stats.topic_coverage[TopicOf(id)].coverage_rate)

(***************************************************************************)
(* Claims about the effects and the failures of a run.                     *)
(***************************************************************************)
\* C18: hash_based_evaluation leaves the caller's QA groups as they were: no
\* field of a QA pair or of a topic group is added or modified.
C18_CallerQAGroupsUnchanged == [][HashBasedEvaluation => qa_data' = qa_data]_vars

\* C19: an empty document or empty QA groups make the evaluation fail: the
\* lexical stage does not return a result for them.
C19_InputErrorsFailFast ==
    (doc_content = <<>> \/ CountQA(qa_data) = 0) => pc # "hashed"

\* A model call of extract_knowledge_points raised.
ExtractorRaised ==
    /\ extractor.has_caller
    /\ \E i \in DOMAIN extractor.calls : extractor.calls[i].raises

\* C20: when the model call made for a paragraph raises, the failure reaches
\* the caller: extract_knowledge_points returns no knowledge-point list.
C20_ExtractorFailurePropagates ==
    pc = "extracted" => ~ExtractorRaised

(***************************************************************************)
(* Claims about two runs.                                                  *)
(***************************************************************************)
PastHashStage == pc \in {"hashed", "prioritized", "mapped", "weighted", "gaps"}

\* C16: for a fixed document and fixed knowledge points, the evaluation of
\* the QA groups plus one more QA unit covers a superset of the paragraphs,
\* and at least as many knowledge points, as the evaluation without it.
C16_OneMoreQaUnitNeverUncovers ==
    (run = "added" /\ first_run.pc = "gaps") =>
        /\ pc # "error"
        /\ PastHashStage =>
              /\ first_run.coverage_stats.covered_paragraphs
                    \subseteq coverage_stats.covered_paragraphs
              /\ first_run.hash_results.covered_paragraphs <= hash_results.covered_paragraphs
        /\ Weighted =>
              first_run.sem_stats.covered_points <= sem_stats.covered_points

\* The added QA unit covers a paragraph and a knowledge point the first run
\* left uncovered, and what the first run covered stays covered.
C16_Witness ==
    /\ run = "added"
    /\ pc = "gaps"
    /\ first_run.pc = "gaps"
    /\ first_run.coverage_stats.covered_paragraphs = {0}
    /\ coverage_stats.covered_paragraphs = {0, 1}
    /\ first_run.sem_stats.covered_points = 1
    /\ sem_stats.covered_points = 2

\* C17: a second run on the same document, QA groups and knowledge points
\* ends as the first and returns the same results.
C17_RunsAreIdentical ==
    run = "again" =>
        /\ pc = "error" => first_run.pc = "error" /\ err = first_run.err
        /\ PastHashStage =>
              /\ first_run.pc = "gaps"
              /\ hash_results = first_run.hash_results
              /\ coverage_stats = first_run.coverage_stats
        /\ pc = "gaps" =>
              /\ prioritized_points = first_run.prioritized_points
              /\ sem_stats = first_run.sem_stats
              /\ knowledge_gaps = first_run.knowledge_gaps

(***************************************************************************)
(* Claims about the sketches and the index.                                *)
(***************************************************************************)
\* The sketch of no token: the initial maximum in every component.
EmptySketch == [p \in DOMAIN HashFamily |-> MaxHash]

RECURSIVE FlatPairs(_)
FlatPairs(qd) == IF qd = <<>> THEN <<>> ELSE Head(qd).qa_pairs \o FlatPairs(Tail(qd))

\* C22: when the text of a QA unit has the same token set as a segment, the
\* query of that QA unit returns the segment: the segment is in
\* covered_paragraphs, the two are linked and the QA unit counts as matched.
C22_DuplicateIsAlwaysMatched ==
    pc = "hashed" =>
        \A q \in 0..(NumQA - 1) : \A p \in 0..(NumSegments - 1) :
            FlatPairs(qa_data)[q + 1].toks = segments[p + 1].toks =>
                /\ p \in coverage_stats.covered_paragraphs
                /\ p \in Range(Get(coverage_stats.qa_matches, q, <<>>))
                /\ q \in Range(Get(coverage_stats.paragraph_coverage, p, <<>>))
                /\ p \in Range(hash_results.qa_details[q].matched_paragraphs)
                /\ coverage_stats.qa_with_match >= 1

\* A QA unit with the tokens of the first of two segments: that segment is
\* returned, the other one is not.
C22_Witness ==
    /\ pc = "hashed"
    /\ NumSegments = 2 /\ NumQA = 1
    /\ FlatPairs(qa_data)[1].toks = segments[1].toks
    /\ coverage_stats.covered_paragraphs = {0}
    /\ coverage_stats.qa_with_match = 1

\* C23: the sketch of a token list depends on the set of its tokens only:
\* lists with the same tokens, in any order and with any repetition, have
\* the same sketch, each component being the minimum of one hash function
\* over the tokens.
C23_SketchDependsOnTokenSetOnly ==
    pc = "sketches" =>
        /\ \A i \in DOMAIN token_lists : \A p \in DOMAIN HashFamily :
              IF token_lists[i] = <<>>
              THEN sketches[i][p] = MaxHash
              ELSE /\ \E t \in Range(token_lists[i]) : sketches[i][p] = HashFamily[p][t]
                   /\ \A t \in Range(token_lists[i]) : sketches[i][p] <= HashFamily[p][t]
        /\ \A i, j \in DOMAIN token_lists :
              Range(token_lists[i]) = Range(token_lists[j]) => sketches[i] = sketches[j]
        /\ \A i \in DOMAIN token_lists :
              token_lists[i] # <<>> => sketches[i] = MinHash(Range(token_lists[i]))

\* Two lists of the same two tokens, in opposite orders and one with a
\* repetition, have the same sketch.
C23_Witness ==
    /\ pc = "sketches"
    /\ token_lists[1] = <<"t1", "t2">>
    /\ token_lists[2] = <<"t2", "t1", "t2">>
    /\ sketches[1] = sketches[2]
    /\ sketches[1] = <<1, 1>>

(***************************************************************************)
(* Claims about a whole run.                                               *)
(***************************************************************************)
\* The text of the k-th point of the prioritized list has a QA unit of this
\* run with a similarity above 0.5.
PointHasMatch(k) ==
    \E q \in 0..(CountQA(qa_data) - 1) : 2 * sim[<<q, prioritized_points[k + 1].text>>] > 10

NoQueryReturns == \A q \in 0..(NumQA - 1) : Returned(q) = {}

EverySegmentReturned ==
    \A p \in 0..(NumSegments - 1) : \E q \in 0..(NumQA - 1) : p \in Returned(q)

\* C24: when no QA query returns a segment and no QA unit has a similarity
\* above 0.5 to any knowledge point, a run over at least one segment gives
\* coverage_rate = 0, simple_coverage = 0, weighted_coverage = 0 and a gap
\* list that holds every knowledge point.
C24_NothingCoveredGivesZeros ==
    (/\ pc = "gaps"
     /\ NumSegments >= 1
     /\ NoQueryReturns
     /\ \A k \in 0..(NumPoints - 1) : ~PointHasMatch(k)) =>
        /\ RateInUnit(hash_results.coverage_rate)
        /\ RateIsZero(hash_results.coverage_rate)
        /\ RateIsZero(sem_stats.simple_coverage)
        /\ RateIsZero(sem_stats.weighted_coverage)
        /\ GapIndices = 0..(NumPoints - 1)
        /\ knowledge_gaps.gap_count = NumPoints

\* Two segments, a QA unit and two knowledge points, nothing in common.
C24_Witness ==
    /\ pc = "gaps"
    /\ NumSegments = 2
    /\ NumQA = 1
    /\ NumPoints = 2
    /\ NoQueryReturns
    /\ \A k \in 0..1 : ~PointHasMatch(k)
    /\ knowledge_gaps.gap_count = 2
    /\ hash_results.coverage_rate = Rate(0, 2)

PerfectlyCovered ==
    /\ RateEq(hash_results.coverage_rate, 1, 1)
    /\ RateEq(sem_stats.simple_coverage, 1, 1)
    /\ RateEq(sem_stats.weighted_coverage, 1, 1)
    /\ \A i \in DOMAIN prioritized_points : prioritized_points[i].priority # "high"
    /\ knowledge_gaps.all_gaps = <<>>

\* C25 as stated: when every segment is returned by the query of some QA
\* unit and every knowledge point has a QA unit with a similarity above
\* 0.5, then coverage_rate = 1, simple_coverage = 1, weighted_coverage = 1,
\* no point has priority 'high' and the gap list is empty.
C25_PerfectCoverageGivesOnes ==
    (/\ pc = "gaps"
     /\ EverySegmentReturned
     /\ \A k \in 0..(NumPoints - 1) : PointHasMatch(k)) => PerfectlyCovered

\* C25, for a run with at least one segment and at least one knowledge
\* point: when every segment is returned by the query of some QA unit and
\* every knowledge point has a QA unit with a similarity above 0.5, then
\* coverage_rate = 1, simple_coverage = 1, weighted_coverage = 1, no point
\* has priority 'high' and the gap list is empty.
C25_PerfectCoverageOfSomePoints ==
    (/\ pc = "gaps"
     /\ NumSegments >= 1
     /\ NumPoints >= 1
     /\ EverySegmentReturned
     /\ \A k \in 0..(NumPoints - 1) : PointHasMatch(k)) => PerfectlyCovered

\* Two segments and two knowledge points, one of them from the first
\* paragraph, all covered.
C25_Witness ==
    /\ pc = "gaps"
    /\ NumSegments = 2
    /\ NumPoints = 2
    /\ \E i \in DOMAIN prioritized_points : prioritized_points[i].paragraph_idx = 0
    /\ EverySegmentReturned
    /\ \A k \in 0..1 : PointHasMatch(k)
    /\ sem_stats.covered_points = 2
    /\ hash_results.covered_paragraphs = 2

(***************************************************************************)
(* Claims about split_document.                                            *)
(***************************************************************************)
IsBlank(i) == doc_content[i].len = 0

\* The maximal runs of lines without a blank line: what lies between two
\* blank-line boundaries.
BlankLineRuns ==
    {r \in (DOMAIN doc_content) \X (DOMAIN doc_content) :
        /\ r[1] <= r[2]
        /\ \A i \in r[1]..r[2] : ~IsBlank(i)
        /\ r[1] = 1 \/ IsBlank(r[1] - 1)
        /\ r[2] = Len(doc_content) \/ IsBlank(r[2] + 1)}

SingleLines == {<<i, i>> : i \in DOMAIN doc_content}

\* The stripped text of the lines r[1]..r[2]: the lines and the newlines
\* between them.
TextOf(r) ==
    [len  |-> SumSeq([i \in 1..(r[2] - r[1] + 1) |-> doc_content[r[1] + i - 1].len])
              + (r[2] - r[1]),
     toks |-> UNION {doc_content[i].toks : i \in r[1]..r[2]}]

AtLeastMinLength(R) == {r \in R : TextOf(r).len >= 50}

\* The texts of a set of runs in document order.
RECURSIVE InDocumentOrder(_)
InDocumentOrder(R) ==
    IF R = {} THEN <<>>
    ELSE LET first == CHOOSE r \in R : \A o \in R : r[1] <= o[1]
         IN  <<TextOf(first)>> \o InDocumentOrder(R \ {first})

HasSplit == pc \in {"index", "sketched"}

\* C26: every segment split_document returns is the text between two
\* blank-line boundaries (or one line, when the fallback applies) and has at
\* least 50 characters; the segments are in document order, none is left
\* out, and compute_minhash indexes them 0..N-1 in that order.
C26_SegmentsAreLongPiecesInOrder ==
    HasSplit =>
        /\ \/ segments = InDocumentOrder(AtLeastMinLength(BlankLineRuns))
           \/ segments = InDocumentOrder(AtLeastMinLength(SingleLines))
        /\ \A i \in DOMAIN segments : segments[i].len >= 50
        /\ pc = "sketched" =>
              /\ DOMAIN doc_hashes = 0..(Len(segments) - 1)
              /\ \A i \in DOMAIN doc_hashes : doc_hashes[i].length = segments[i + 1].len

\* Five blocks between blank lines, one of them two short lines: five
\* segments, the two-line one among them with its 61 characters.
C26_Witness ==
    /\ pc = "sketched"
    /\ Len(segments) = 5
    /\ segments[2].len = 61
    /\ segments[1].toks # segments[3].toks
    /\ \E i \in DOMAIN doc_content : IsBlank(i) /\ IsBlank(i + 1)

\* C29: split_document returns the blank-line split filtered to 50
\* characters when that has at least 5 segments; otherwise it returns the
\* single-newline split filtered to 50 characters and nothing of the
\* blank-line split, however many segments that gives.
C29_FallbackReplacesBlankLineSplit ==
    HasSplit =>
        IF Cardinality(AtLeastMinLength(BlankLineRuns)) >= 5
        THEN segments = InDocumentOrder(AtLeastMinLength(BlankLineRuns))
        ELSE segments = InDocumentOrder(AtLeastMinLength(SingleLines))

\* The blank-line split has four segments, one of them made of two short
\* lines; the fallback returns the three long lines only.
C29_Witness ==
    /\ pc = "index"
    /\ Cardinality(AtLeastMinLength(BlankLineRuns)) = 4
    /\ \E r \in AtLeastMinLength(BlankLineRuns) : r[2] > r[1]
    /\ Len(segments) = 3
    /\ \A i \in DOMAIN segments : segments[i].len = 60

(***************************************************************************)
(* Claims about the indices and the rates of the semantic stage.           *)
(***************************************************************************)
PointIndices == 0..(NumPoints - 1)

CoveredIndices == DOMAIN mapping_results.knowledge_coverage

\* C27: in one run the mapping, the coverage figures and the gap list all
\* index the same prioritized list: every knowledge_idx, every key of
\* knowledge_coverage and every gap index is a position 0..K-1 whose text
\* is the text of that point, the covered points and the gaps partition the
\* positions, and covered_points + gap_count = total_points.
C27_IndicesShareThePrioritizedList ==
    pc = "gaps" =>
        /\ \A i \in DOMAIN mapping_results.mappings :
              \A j \in DOMAIN mapping_results.mappings[i].matched_points :
                 LET mp == mapping_results.mappings[i].matched_points[j]
                 IN  /\ mp.knowledge_idx \in PointIndices
                     /\ mp.knowledge_text = prioritized_points[mp.knowledge_idx + 1].text
        /\ \A id \in DOMAIN mapping_results.qa_knowledge_points :
              \A j \in DOMAIN mapping_results.qa_knowledge_points[id] :
                 mapping_results.qa_knowledge_points[id][j] \in PointIndices
        /\ CoveredIndices \subseteq PointIndices
        /\ \A g \in DOMAIN knowledge_gaps.all_gaps :
              /\ knowledge_gaps.all_gaps[g].index \in PointIndices
              /\ knowledge_gaps.all_gaps[g].text
                    = prioritized_points[knowledge_gaps.all_gaps[g].index + 1].text
        /\ GapIndices \cap CoveredIndices = {}
        /\ GapIndices \cup CoveredIndices = PointIndices
        /\ sem_stats.total_points = NumPoints
        /\ sem_stats.covered_points + knowledge_gaps.gap_count = sem_stats.total_points

\* Two points: the second is mapped to by two QA units, the first is the
\* only gap.
C27_Witness ==
    /\ pc = "gaps"
    /\ NumPoints = 2
    /\ CoveredIndices = {1}
    /\ Len(mapping_results.knowledge_coverage[1]) = 2
    /\ GapIndices = {0}
    /\ sem_stats.covered_points = 1
    /\ knowledge_gaps.gap_count = 1

SamePriorities ==
    \A i, j \in DOMAIN prioritized_points :
        (prioritized_points[i].priority = "high") = (prioritized_points[j].priority = "high")

\* C28: with at least one knowledge point, weighted_coverage is 1 exactly
\* when simple_coverage is 1 and 0 exactly when simple_coverage is 0, and
\* when all points have the same priority the two rates are equal.
C28_WeightedAndSimpleAgreeAtTheEnds ==
    (Weighted /\ NumPoints >= 1) =>
        LET w == sem_stats.weighted_coverage
            c == sem_stats.simple_coverage
        IN  /\ RateEq(w, 1, 1) <=> RateEq(c, 1, 1)
            /\ RateIsZero(w) <=> RateIsZero(c)
            /\ SamePriorities => RateEq(w, c[1], c[2])

\* Two 'high' points, one of them covered: both rates are one half.
C28_Witness ==
    /\ pc = "weighted"
    /\ NumPoints = 2
    /\ \A i \in DOMAIN prioritized_points : prioritized_points[i].priority = "high"
    /\ sem_stats.covered_points = 1
    /\ RateEq(sem_stats.simple_coverage, 1, 2)
    /\ RateEq(sem_stats.weighted_coverage, 1, 2)

(***************************************************************************)
(* Claims about the gap lists and the report.                              *)
(***************************************************************************)
GapsKnown == pc \in {"gaps", "reported"}

\* C30: high_priority_gaps is the 'high' entries of all_gaps in the same
\* order, which are a prefix of all_gaps, so high_priority_gap_count is at
\* most gap_count; the report's uncovered_areas lists the first
\* min(5, high_priority_gap_count) of them in that order and is empty when
\* there is none.
C30_HighGapsArePrefixAndReportShowsFive ==
    GapsKnown =>
        LET all == knowledge_gaps.all_gaps
            high == knowledge_gaps.high_priority_gaps
            n == knowledge_gaps.high_priority_gap_count
        IN  /\ n = Len(high)
            /\ n <= knowledge_gaps.gap_count
            /\ knowledge_gaps.gap_count = Len(all)
            /\ \A i \in 1..n : high[i] = all[i] /\ all[i].priority = "high"
            /\ \A i \in (n + 1)..Len(all) : all[i].priority # "high"
            /\ pc = "reported" =>
                  LET areas == report.recommendations.uncovered_areas
                  IN  /\ Len(areas) = (IF n < 5 THEN n ELSE 5)
                      /\ \A i \in DOMAIN areas :
                            areas[i] = [knowledge_point |-> high[i].text,
                                        priority |-> high[i].priority]
                      /\ n = 0 => areas = <<>>

\* Six uncovered 'high' points: the report shows the first five.
C30_Witness ==
    /\ pc = "reported"
    /\ knowledge_gaps.high_priority_gap_count = 6
    /\ Len(report.recommendations.uncovered_areas) = 5
    /\ report.recommendations.uncovered_areas[5].knowledge_point
          = knowledge_gaps.all_gaps[5].text

====
